---- MODULE Spec2Model ----
(***************************************************************************)
(* Fingerprint capture session orchestrator.                               *)
(*                                                                         *)
(* ws_scan (backend/app/routes/ws_routes.py) validates the identity,       *)
(* creates a ScanSession, starts the scan workflow (ScanSession.run_scan,  *)
(* backend/app/services/fingerprint_session.py) as an asyncio task next to *)
(* a disconnect watcher (ws.receive_text), and reacts to whichever         *)
(* finishes first.  run_scan drives the SecuGen device                     *)
(* (backend/app/services/secu_gen.py) through the default thread pool.     *)
(*                                                                         *)
(* One step of a coroutine is what it executes between two suspension      *)
(* points (await of an executor call, of a send, of asyncio.sleep, of      *)
(* asyncio.wait).  The name of a position says what the coroutine awaits.  *)
(* A blocking device call runs in a worker thread: it cannot be            *)
(* interrupted, so a call whose awaiting task was cancelled keeps running  *)
(* as an orphan and takes effect on the device when it finishes.           *)
(***************************************************************************)
EXTENDS Naturals, Sequences, FiniteSets

Sessions == {1, 2}

\* ScanSession._max_attempts / max_attempts default of _capture_image_with_retry
MaxAttempts == 3
\* run_scan: "if quality_score < 40"
QualityWarn == 40
\* _verify_image_quality: score returned when the quality call raises
QualityDefault == 50
\* quality scores the device is taken to report (0..100 in the code)
QualityScores == {39, 40, 75}
\* SecuGenDevice.blink_led(2, 0.3): two blinks, each set_led(True), set_led(False)
BlinkTimes == 2
\* WebSocket objects that connect to one group of the ConnectionManager
Conns == {1, 2, 3}
\* Event-loop turns between the completion of disconnect_task and the wake-up of
\* ws_scan out of asyncio.wait (done callback, then the waiter's wake-up): the
\* number of executor results or timers run_scan can consume in between.
WakeLag == 1

VARIABLES
    ws_pc,            \* position of ws_scan for each channel
    scan_task,        \* position of the task running session.run_scan
    disconnect_task,  \* the task running ws.receive_text()
    cancel_requested, \* scan_task.cancel() was called and not yet delivered
    ret,              \* value run_scan is about to return once its finally ends
    client,           \* the remote end of the channel
    chan,             \* application side of the channel: "open" until ws.close
    clock,            \* utcnow() relative to session.expires_at
    fired_at,         \* history: where run_scan stood when disconnect_task finished
    lag,              \* results run_scan consumed while ws_scan's wake-up was queued
    device,           \* session.device: "None" or "SecuGenDevice"
    hFPM,             \* SecuGenDevice.hFPM: "null" or "valid"
    opened,           \* the reader is opened through this handle
    max_template_size,\* SecuGenDevice.max_template_size (0, or 1 for "set")
    led,              \* LED of the physical reader
    blink,            \* set_led calls made so far by the blink_led thread
    orphans,          \* executor calls still running whose awaiter was cancelled
    capture_attempts, \* session._capture_attempts
    quality_score,    \* quality_score local of run_scan
    outcomes,         \* history: what the device calls awaited by run_scan returned
    active,           \* session.active
    calls,            \* history: device methods submitted, "_cleanup_device" marks
    stored,           \* history: number of times the template was handed to the store
    log,              \* history: events handed to send_event and ws.close attempts
    active_connections, \* ConnectionManager.active_connections[connection_type]
    sock,             \* each WebSocket: "new", "open", or "closed" by its client
    bcast,            \* position of broadcast_to_type
    it_used,          \* set iterator of the for loop: len(set) when it was created
    it_todo,          \* set iterator: the entries it has not yet passed
    connection,       \* loop variable of broadcast_to_type
    disconnected,     \* local set of broadcast_to_type
    attempted,        \* history: send_text calls of the broadcast per connection
    whole,            \* history: registered since the broadcast started
    members           \* history: connected and not yet disconnected

vars == <<ws_pc, scan_task, disconnect_task, cancel_requested, ret, client, chan,
          clock, fired_at, lag, device, hFPM, opened, max_template_size, led, blink, orphans,
          capture_attempts, quality_score, outcomes, active, calls, stored, log,
          active_connections, sock, bcast, it_used, it_todo, connection, disconnected,
          attempted, whole, members>>

wsVars   == <<ws_pc, disconnect_task, chan, stored>>
envVars  == <<client, clock, fired_at>>
sdkVars  == <<hFPM, opened, max_template_size, led, blink, orphans>>
mgrVars  == <<active_connections, sock, bcast, it_used, it_todo, connection,
              disconnected, attempted, whole, members>>
taskVars == <<scan_task, cancel_requested, ret, device, capture_attempts,
              quality_score, outcomes, calls>>

----------------------------------------------------------------------------
(* Helpers *)

\* ws_scan.send_event: ws.send_text raises when the client is gone or the
\* channel was closed; both exceptions are swallowed.  ok records delivery.
send_event(s, t, n) ==
    [log EXCEPT ![s] = Append(@, [type |-> t, n |-> n,
                                  ok |-> client[s] = "connected" /\ chan[s] = "open"])]

\* loop.run_in_executor(None, self.device.<op>, ...): the call is handed to a thread
run_in_executor(s, op) == [calls EXCEPT ![s] = Append(@, op)]

\* The executor call a position of run_scan awaits ("none": a send or a sleep)
Awaited(pc) ==
    CASE pc = "r_create"     -> "create"
      [] pc = "r_init"       -> "init"
      [] pc = "r_open"       -> "open"
      [] pc = "c_brightness" -> "set_brightness"
      [] pc = "c_format"     -> "set_template_format"
      [] pc = "r_info"       -> "get_device_info"
      [] pc = "r_blink"      -> "blink_led"
      [] pc = "k_capture"    -> "capture_image_ex"
      [] pc = "q_quality"    -> "get_image_quality"
      [] pc = "r_template"   -> "create_template"
      [] pc = "f_led"        -> "set_led"
      [] pc = "f_close"      -> "close"
      [] pc = "f_terminate"  -> "terminate"
      [] OTHER               -> "none"

CleanupPcs == {"f_led", "f_close", "f_terminate"}
EndedPcs   == {"done", "cancelled"}

Count(seq, x) == Cardinality({i \in DOMAIN seq : seq[i] = x})
CountType(seq, t) == Cardinality({i \in DOMAIN seq : seq[i].type = t})

\* ScanSession.is_expired: datetime.utcnow() > self.expires_at
is_expired(s) == clock[s] = "after"

----------------------------------------------------------------------------
(* Initial states *)

\* nothing has run yet; task is where the scan task of each channel stands
InitWith(task) ==
    /\ scan_task = [s \in Sessions |-> task]
    /\ disconnect_task = [s \in Sessions |-> "none"]
    /\ cancel_requested = [s \in Sessions |-> FALSE]
    /\ ret = [s \in Sessions |-> "unset"]
    /\ client = [s \in Sessions |-> "connected"]
    /\ chan = [s \in Sessions |-> "open"]
    /\ clock = [s \in Sessions |-> "none"]
    /\ fired_at = [s \in Sessions |-> "never"]
    /\ lag = [s \in Sessions |-> 0]
    /\ device = [s \in Sessions |-> "None"]
    /\ active = [s \in Sessions |-> task # "none"]
    /\ hFPM = [s \in Sessions |-> "null"]
    /\ opened = [s \in Sessions |-> FALSE]
    /\ max_template_size = [s \in Sessions |-> 0]
    /\ led = "off"
    /\ blink = [s \in Sessions |-> 0]
    /\ orphans = [s \in Sessions |-> {}]
    /\ capture_attempts = [s \in Sessions |-> 0]
    /\ quality_score = [s \in Sessions |-> 0]
    /\ outcomes = [s \in Sessions |-> <<>>]
    /\ calls = [s \in Sessions |-> <<>>]
    /\ stored = [s \in Sessions |-> 0]
    /\ log = [s \in Sessions |-> <<>>]
    /\ active_connections = {}
    /\ sock = [c \in Conns |-> "new"]
    /\ bcast = "idle"
    /\ it_used = 0
    /\ it_todo = {}
    /\ connection = 0
    /\ disconnected = {}
    /\ attempted = [c \in Conns |-> 0]
    /\ whole = {}
    /\ members = {}

InitCommon == InitWith("none")

\* One client connects; no second channel is ever opened.
Init ==
    /\ InitCommon
    /\ ws_pc = [s \in Sessions |-> IF s = 1 THEN "accept" ELSE "absent"]

\* Two clients connect to /ws/scan at the same time.
InitTwo ==
    /\ InitCommon
    /\ ws_pc = [s \in Sessions |-> "accept"]

----------------------------------------------------------------------------
(* The channel and the client *)

\* ws.close(code) reached with the channel still open: Starlette marks the
\* application side closed, then sends the close frame.
ws_close(s, code) ==
    [log EXCEPT ![s] = Append(@, [type |-> "close", n |-> code,
                                  ok |-> client[s] = "connected" /\ chan[s] = "open"])]

\* What the awaited ws.close does: it returns when the client is there; with
\* the client gone the server's send either is dropped silently, or raises
\* RuntimeError (the case send_event's "except RuntimeError" is written for),
\* or raises WebSocketDisconnect.
CloseOutcomes(s) ==
    IF client[s] = "connected" THEN {"ok"}
    ELSE {"ok", "RuntimeError", "WebSocketDisconnect"}

\* disconnect_task is created after scan_task: its first step, and so its
\* completion, comes after the first step of run_scan.
Watching(s) == disconnect_task[s] = "pending" /\ scan_task[s] # "start"

\* disconnect_task finishes (receive_text returned or raised)
Fired(s) ==
    /\ disconnect_task' = [disconnect_task EXCEPT ![s] = "done"]
    /\ fired_at' = [fired_at EXCEPT ![s] = scan_task[s]]

\* The client closes the socket; a pending receive_text ends with WebSocketDisconnect.
ClientDisconnect(s) ==
    /\ ws_pc[s] \notin {"absent", "returned", "raised"}
    /\ client[s] = "connected"
    /\ client' = [client EXCEPT ![s] = "gone"]
    /\ IF Watching(s) THEN Fired(s) ELSE UNCHANGED <<disconnect_task, fired_at>>
    /\ UNCHANGED <<active, mgrVars, lag, ws_pc, chan, stored, clock, sdkVars, taskVars, log>>

\* The client sends a text frame (a cancel request): receive_text returns it.
ClientMessage(s) ==
    /\ client[s] = "connected"
    /\ chan[s] = "open"
    /\ Watching(s)
    /\ Fired(s)
    /\ UNCHANGED <<active, mgrVars, lag, ws_pc, chan, stored, client, clock, sdkVars, taskVars, log>>

\* ws.receive_text() started after the client had left raises at once.
receive_text(s) ==
    /\ Watching(s)
    /\ client[s] = "gone"
    /\ Fired(s)
    /\ UNCHANGED <<active, mgrVars, lag, ws_pc, chan, stored, client, clock, sdkVars, taskVars, log>>

\* utcnow() moves towards and past session.expires_at while run_scan waits
\* for a finger (capture_image_ex, up to timeout_ms) or pauses before a retry.
Tick(s) ==
    /\ clock[s] \in {"before", "at"}
    /\ scan_task[s] \in {"k_capture", "k_sleep"}
    /\ clock' = [clock EXCEPT ![s] = IF @ = "before" THEN "at" ELSE "after"]
    /\ UNCHANGED <<active, mgrVars, lag, wsVars, client, fired_at, sdkVars, taskVars, log>>

----------------------------------------------------------------------------
(* ws_scan *)

\* await ws.accept()
ws_accept(s) ==
    /\ ws_pc[s] = "accept"
    /\ ws_pc' = [ws_pc EXCEPT ![s] = "lookup"]
    /\ UNCHANGED <<active, mgrVars, lag, disconnect_task, chan, stored, envVars, sdkVars, taskVars, log>>

\* rec = await database.fetch_one(query); lines 43-58
ws_lookup(s) ==
    /\ ws_pc[s] = "lookup"
    /\ \/ \* no record: error event, then close(4000)
          /\ log' = send_event(s, "error", 0)
          /\ ws_pc' = [ws_pc EXCEPT ![s] = "nf_send"]
          /\ UNCHANGED <<clock, active>>
       \/ \* record found: session = ScanSession(...), device_init event
          /\ log' = send_event(s, "device_init", 0)
          /\ ws_pc' = [ws_pc EXCEPT ![s] = "w_send_init"]
          /\ clock' = [clock EXCEPT ![s] = "before"]
          /\ active' = [active EXCEPT ![s] = TRUE]
       \/ \* the query raises: "except Exception" sends an error event
          /\ log' = send_event(s, "error", 0)
          /\ ws_pc' = [ws_pc EXCEPT ![s] = "e_send"]
          /\ UNCHANGED <<clock, active>>
    /\ UNCHANGED <<mgrVars, lag, disconnect_task, chan, stored, client, fired_at, sdkVars, taskVars>>

\* the not-found path closing with the code of an internal error
ws_not_found_1011(s) ==
    /\ ws_pc[s] = "nf_send"
    /\ log' = ws_close(s, 1011)
    /\ chan' = [chan EXCEPT ![s] = "closed"]
    /\ ws_pc' = [ws_pc EXCEPT ![s] = "cl_4000"]
    /\ UNCHANGED <<active, mgrVars, lag, disconnect_task, stored, envVars, sdkVars, taskVars>>

\* await ws.close(code=4000), line 50
ws_not_found(s) ==
    /\ ws_pc[s] = "nf_send"
    /\ log' = ws_close(s, 4000)
    /\ chan' = [chan EXCEPT ![s] = "closed"]
    /\ ws_pc' = [ws_pc EXCEPT ![s] = "cl_4000"]
    /\ UNCHANGED <<active, mgrVars, lag, disconnect_task, stored, envVars, sdkVars, taskVars>>

\* scan_task = create_task(session.run_scan(send_event));
\* disconnect_task = create_task(ws.receive_text()); await asyncio.wait(...)
ws_create_tasks(s) ==
    /\ ws_pc[s] = "w_send_init"
    /\ scan_task' = [scan_task EXCEPT ![s] = "start"]
    /\ disconnect_task' = [disconnect_task EXCEPT ![s] = "pending"]
    /\ ws_pc' = [ws_pc EXCEPT ![s] = "wait"]
    /\ UNCHANGED <<active, mgrVars, lag, chan, stored, envVars, sdkVars, cancel_requested, outcomes, ret, device,
                   capture_attempts, quality_score, calls, log>>

\* asyncio.wait returned with disconnect_task in done: lines 72-81
ws_disconnected(s) ==
    /\ ws_pc[s] = "wait"
    /\ disconnect_task[s] = "done"
    /\ cancel_requested' = [cancel_requested EXCEPT ![s] = scan_task[s] \notin EndedPcs]
    /\ log' = ws_close(s, 1001)
    /\ chan' = [chan EXCEPT ![s] = "closed"]
    /\ ws_pc' = [ws_pc EXCEPT ![s] = "cl_1001"]
    /\ lag' = [lag EXCEPT ![s] = 0]
    /\ UNCHANGED <<active, mgrVars, disconnect_task, stored, envVars, sdkVars, scan_task, ret, device,
                   capture_attempts, quality_score, outcomes, calls>>

\* a handler that hands whatever run_scan returned to the store
ws_scan_finished_unchecked(s) ==
    /\ ws_pc[s] = "wait"
    /\ disconnect_task[s] # "done"
    /\ scan_task[s] = "done"
    /\ disconnect_task' = [disconnect_task EXCEPT ![s] = "cancelled"]
    /\ stored' = [stored EXCEPT ![s] = @ + 1]
    /\ ws_pc' = [ws_pc EXCEPT ![s] = "w_store"]
    /\ UNCHANGED <<active, mgrVars, lag, chan, envVars, sdkVars, taskVars, log>>

\* asyncio.wait returned with only scan_task in done: lines 83-106
ws_scan_finished(s) ==
    /\ ws_pc[s] = "wait"
    /\ disconnect_task[s] # "done"
    /\ scan_task[s] = "done"
    /\ disconnect_task' = [disconnect_task EXCEPT ![s] = "cancelled"]
    /\ IF ret[s] = "None"
       THEN /\ log' = send_event(s, "capture_failed", 0)
            /\ ws_pc' = [ws_pc EXCEPT ![s] = "w_send_failed"]
            /\ UNCHANGED stored
       ELSE /\ stored' = [stored EXCEPT ![s] = @ + 1]
            /\ ws_pc' = [ws_pc EXCEPT ![s] = "w_store"]
            /\ UNCHANGED log
    /\ UNCHANGED <<active, mgrVars, lag, chan, envVars, sdkVars, taskVars>>

\* the handler closing the channel before it returns
ws_return_closing(s) ==
    /\ ws_pc[s] \in {"w_send_failed", "w_send_store_err"}
    /\ log' = ws_close(s, 1011)
    /\ chan' = [chan EXCEPT ![s] = "closed"]
    /\ ws_pc' = [ws_pc EXCEPT ![s] = "returned"]
    /\ UNCHANGED <<active, mgrVars, lag, disconnect_task, stored, envVars, sdkVars, taskVars>>

\* "return  # keep socket open", line 95; and the return of line 114
ws_return_open(s) ==
    /\ ws_pc[s] \in {"w_send_failed", "w_send_store_err"}
    /\ ws_pc' = [ws_pc EXCEPT ![s] = "returned"]
    /\ UNCHANGED <<active, mgrVars, lag, disconnect_task, chan, stored, envVars, sdkVars, taskVars, log>>

\* a storage failure reported as a capture failure
ws_store_capture_failed(s) ==
    /\ ws_pc[s] = "w_store"
    /\ \/ /\ log' = send_event(s, "capture_success", 0)
          /\ ws_pc' = [ws_pc EXCEPT ![s] = "w_send_success"]
       \/ /\ log' = send_event(s, "capture_failed", 0)
          /\ ws_pc' = [ws_pc EXCEPT ![s] = "w_send_store_err"]
    /\ UNCHANGED <<active, mgrVars, lag, disconnect_task, chan, stored, envVars, sdkVars, taskVars>>

\* enc = encrypt_bytes(template); await database.execute(upd): lines 98-120
ws_store(s) ==
    /\ ws_pc[s] = "w_store"
    /\ \/ /\ log' = send_event(s, "capture_success", 0)
          /\ ws_pc' = [ws_pc EXCEPT ![s] = "w_send_success"]
       \/ \* encrypting or saving raised
          /\ log' = send_event(s, "error", 0)
          /\ ws_pc' = [ws_pc EXCEPT ![s] = "w_send_store_err"]
    /\ UNCHANGED <<active, mgrVars, lag, disconnect_task, chan, stored, envVars, sdkVars, taskVars>>

\* the "done" event, lines 121-124
ws_done_event(s) ==
    /\ ws_pc[s] = "w_send_success"
    /\ log' = send_event(s, "done", 0)
    /\ ws_pc' = [ws_pc EXCEPT ![s] = "w_send_done"]
    /\ UNCHANGED <<active, mgrVars, lag, disconnect_task, chan, stored, envVars, sdkVars, taskVars>>

\* await ws.close(code=1000), line 125
ws_close_normal(s) ==
    /\ ws_pc[s] = "w_send_done"
    /\ log' = ws_close(s, 1000)
    /\ chan' = [chan EXCEPT ![s] = "closed"]
    /\ ws_pc' = [ws_pc EXCEPT ![s] = "cl_1000"]
    /\ UNCHANGED <<active, mgrVars, lag, disconnect_task, stored, envVars, sdkVars, taskVars>>

\* An awaited ws.close inside the try block ends: it returns (the handler
\* returns), raises RuntimeError ("except Exception": error event), or raises
\* WebSocketDisconnect ("except WebSocketDisconnect": with a session,
\* session.device.stop_blink() raises AttributeError, SecuGenDevice has no
\* such method).
ws_close_returns(s) ==
    /\ ws_pc[s] \in {"cl_4000", "cl_1001", "cl_1000"}
    /\ \E o \in CloseOutcomes(s) :
          /\ ws_pc' = [ws_pc EXCEPT ![s] =
                CASE o = "ok" -> "returned"
                  [] o = "RuntimeError" -> "e_send"
                  [] OTHER -> IF ws_pc[s] = "cl_4000" THEN "returned" ELSE "raised"]
          /\ log' = IF o = "RuntimeError" THEN send_event(s, "error", 0) ELSE log
    /\ UNCHANGED <<active, mgrVars, lag, disconnect_task, chan, stored, envVars, sdkVars, taskVars>>

\* "finally: await ws.close(code=1011)", lines 145-146.  On a channel that a
\* close was already sent on, Starlette raises RuntimeError at once.
ws_close_error(s) ==
    /\ ws_pc[s] = "e_send"
    /\ log' = ws_close(s, 1011)
    /\ chan' = [chan EXCEPT ![s] = "closed"]
    /\ ws_pc' = [ws_pc EXCEPT ![s] = IF chan[s] = "open" THEN "cl_1011" ELSE "raised"]
    /\ UNCHANGED <<active, mgrVars, lag, disconnect_task, stored, envVars, sdkVars, taskVars>>

\* the awaited close(1011) ends: the handler returns, or the exception leaves it
ws_close_error_returns(s) ==
    /\ ws_pc[s] = "cl_1011"
    /\ \E o \in CloseOutcomes(s) :
          ws_pc' = [ws_pc EXCEPT ![s] = IF o = "ok" THEN "returned" ELSE "raised"]
    /\ UNCHANGED <<active, mgrVars, lag, disconnect_task, chan, stored, envVars, sdkVars, taskVars, log>>

\* The handler task itself is cancelled while it awaits asyncio.wait (server
\* shutdown): "except asyncio.CancelledError", lines 133-136.  asyncio.wait
\* does not cancel the tasks it waits for; session.device.stop_blink() raises
\* AttributeError.
ws_cancelled(s) ==
    /\ ws_pc[s] = "wait"
    /\ ws_pc' = [ws_pc EXCEPT ![s] = "raised"]
    /\ lag' = [lag EXCEPT ![s] = 0]
    /\ UNCHANGED <<active, mgrVars, disconnect_task, chan, stored, envVars, sdkVars, taskVars, log>>

----------------------------------------------------------------------------
(* ScanSession.run_scan and its helpers.  A step is taken only when no       *)
(* cancellation is pending: a cancelled task's next step is CancelledError.  *)

\* disconnect_task is done and ws_scan has not yet come out of asyncio.wait
Racing(s) == ws_pc[s] = "wait" /\ disconnect_task[s] = "done"

\* positions at which run_scan waits for a worker thread or for a timer
Timed(pc) == Awaited(pc) # "none" \/ pc = "k_sleep"

\* run_scan stands at pc and takes its next step.  Its second step waits for
\* a worker thread, so the first step of disconnect_task comes before it: with
\* the client already gone, receive_text has raised by then.
Runs(s, pc) ==
    /\ scan_task[s] = pc
    /\ ~cancel_requested[s]
    /\ ~(disconnect_task[s] = "pending" /\ pc # "start" /\ client[s] = "gone")
    /\ IF Racing(s) /\ Timed(pc)
       THEN /\ lag[s] < WakeLag
            /\ lag' = [lag EXCEPT ![s] = @ + 1]
       ELSE UNCHANGED lag

wsEnv == <<wsVars, envVars>>

\* _cleanup_device is entered (the finally of run_scan) with r to be returned:
\* "if self.device:" then _stop_led, whose _blink_task is never set, hands
\* set_led(False) to the executor.
EnterCleanup(s, r) ==
    /\ ret' = [ret EXCEPT ![s] = r]
    /\ calls' = [calls EXCEPT ![s] =
                    IF device[s] = "SecuGenDevice"
                    THEN @ \o <<"_cleanup_device", "set_led">>
                    ELSE Append(@, "_cleanup_device")]
    /\ scan_task' = [scan_task EXCEPT ![s] =
                    IF device[s] = "SecuGenDevice" THEN "f_led"
                    ELSE IF r = "cancelled" THEN "cancelled" ELSE "done"]

\* the awaited device call op returned r or raised: r is what run_scan sees
returned(s, op, r) == [outcomes EXCEPT ![s] = Append(@, <<op, r, 0>>)]

\* get_image_quality returned the score q
scored(s, q) == [outcomes EXCEPT ![s] = Append(@, <<"get_image_quality", "score", q>>)]

\* send_event letting the exception of ws.send_text through: run_scan's
\* "except Exception" is where the coroutine goes on
sent_or_raised(s, pc) ==
    [scan_task EXCEPT ![s] =
        IF client[s] = "connected" /\ chan[s] = "open" THEN pc ELSE "x_send_error"]

\* "await send_event_callable(...)" is over: send_event (ws_routes.py lines
\* 29-37) catches RuntimeError and Exception, so whatever ws.send_text did,
\* the coroutine goes on after the send, at pc
sent(s, pc) == [scan_task EXCEPT ![s] = pc]

\* an except clause that starts the workflow over
Except_retry(s) ==
    /\ log' = send_event(s, "error", 0)
    /\ scan_task' = [scan_task EXCEPT ![s] = "start"]

\* "except Exception as e:" of run_scan: the error event, lines 136-141
Except(s) ==
    /\ log' = send_event(s, "error", 0)
    /\ scan_task' = sent(s, "x_send_error")

\* self.device = SecuGenDevice(); run_in_executor(create): lines 52-54
run_scan_start(s) ==
    /\ Runs(s, "start")
    /\ \/ /\ device' = [device EXCEPT ![s] = "SecuGenDevice"]
          /\ calls' = run_in_executor(s, "create")
          /\ scan_task' = [scan_task EXCEPT ![s] = "r_create"]
          /\ outcomes' = returned(s, "SecuGenDevice", "ok")
          /\ UNCHANGED log
       \/ \* _ensure_sdk_loaded raises SecuGenError: the device stays None
          /\ Except(s)
          /\ outcomes' = returned(s, "SecuGenDevice", "raised")
          /\ UNCHANGED <<device, calls>>
    /\ UNCHANGED <<active, mgrVars, wsEnv, sdkVars, cancel_requested, ret, capture_attempts, quality_score>>

\* create returned or raised; run_in_executor(init): lines 54-57
run_scan_create(s) ==
    /\ Runs(s, "r_create")
    /\ \/ /\ hFPM' = [hFPM EXCEPT ![s] = "valid"]
          /\ calls' = run_in_executor(s, "init")
          /\ scan_task' = [scan_task EXCEPT ![s] = "r_init"]
          /\ outcomes' = returned(s, "create", "ok")
          /\ UNCHANGED log
       \/ /\ Except(s)
          /\ outcomes' = returned(s, "create", "raised")
          /\ UNCHANGED <<hFPM, calls>>
    /\ UNCHANGED <<active, mgrVars, wsEnv, opened, max_template_size, led, blink, orphans,
                   cancel_requested, ret, device, capture_attempts, quality_score>>

\* init returned or raised; run_in_executor(open, 0): lines 57-60
run_scan_init(s) ==
    /\ Runs(s, "r_init")
    /\ \/ /\ calls' = run_in_executor(s, "open")
          /\ scan_task' = [scan_task EXCEPT ![s] = "r_open"]
          /\ outcomes' = returned(s, "init", "ok")
          /\ UNCHANGED log
       \/ /\ Except(s)
          /\ outcomes' = returned(s, "init", "raised")
          /\ UNCHANGED calls
    /\ UNCHANGED <<active, mgrVars, wsEnv, sdkVars, cancel_requested, ret, device, capture_attempts,
                   quality_score>>

\* open returned or raised; _configure_device: run_in_executor(set_brightness, 50)
run_scan_open(s) ==
    /\ Runs(s, "r_open")
    /\ \/ /\ opened' = [opened EXCEPT ![s] = TRUE]
          /\ calls' = run_in_executor(s, "set_brightness")
          /\ scan_task' = [scan_task EXCEPT ![s] = "c_brightness"]
          /\ outcomes' = returned(s, "open", "ok")
          /\ UNCHANGED log
       \/ /\ Except(s)
          /\ outcomes' = returned(s, "open", "raised")
          /\ UNCHANGED <<opened, calls>>
    /\ UNCHANGED <<active, mgrVars, wsEnv, hFPM, max_template_size, led, blink, orphans,
                   cancel_requested, ret, device, capture_attempts, quality_score>>

\* set_brightness returned (it only logs a failure); set_template_format
configure_brightness(s) ==
    /\ Runs(s, "c_brightness")
    /\ calls' = run_in_executor(s, "set_template_format")
    /\ scan_task' = [scan_task EXCEPT ![s] = "c_format"]
    /\ UNCHANGED <<active, mgrVars, wsEnv, sdkVars, cancel_requested, outcomes, ret, device, capture_attempts,
                   quality_score, log>>

\* set_template_format returned (max_template_size set, device_configured sent)
\* or raised ("except Exception" of _configure_device: non-fatal, run_scan
\* goes on with get_device_info)
configure_format(s) ==
    /\ Runs(s, "c_format")
    /\ \/ /\ max_template_size' = [max_template_size EXCEPT ![s] = 1]
          /\ log' = send_event(s, "device_configured", 0)
          /\ scan_task' = sent(s, "c_send_configured")
          /\ outcomes' = returned(s, "set_template_format", "ok")
          /\ UNCHANGED calls
       \/ /\ calls' = run_in_executor(s, "get_device_info")
          /\ scan_task' = [scan_task EXCEPT ![s] = "r_info"]
          /\ outcomes' = returned(s, "set_template_format", "raised")
          /\ UNCHANGED <<max_template_size, log>>
    /\ UNCHANGED <<active, mgrVars, wsEnv, hFPM, opened, led, blink, orphans, cancel_requested, ret,
                   device, capture_attempts, quality_score>>

\* device_configured was sent; run_in_executor(get_device_info): lines 67-69
configure_done(s) ==
    /\ Runs(s, "c_send_configured")
    /\ calls' = run_in_executor(s, "get_device_info")
    /\ scan_task' = [scan_task EXCEPT ![s] = "r_info"]
    /\ UNCHANGED <<active, mgrVars, wsEnv, sdkVars, cancel_requested, outcomes, ret, device, capture_attempts,
                   quality_score, log>>

\* run_in_executor(blink_led, 2, 0.3): line 75
run_scan_info(s) ==
    /\ Runs(s, "r_info")
    /\ calls' = run_in_executor(s, "blink_led")
    /\ blink' = [blink EXCEPT ![s] = 0]
    /\ scan_task' = [scan_task EXCEPT ![s] = "r_blink"]
    /\ UNCHANGED <<active, mgrVars, wsEnv, hFPM, opened, max_template_size, led, orphans,
                   cancel_requested, outcomes, ret, device, capture_attempts, quality_score, log>>

\* SecuGenDevice.set_led: the SDK call acts on the reader opened by the handle
set_led(s, on) == IF opened[s] THEN (IF on THEN "on" ELSE "off") ELSE led

\* One set_led call of the thread running SecuGenDevice.blink_led: on, off, ...
blink_led(s) ==
    /\ scan_task[s] = "r_blink" \/ "blink_led" \in orphans[s]
    /\ blink[s] < 2 * BlinkTimes
    /\ led' = set_led(s, blink[s] % 2 = 0)
    /\ blink' = [blink EXCEPT ![s] = @ + 1]
    /\ orphans' = [orphans EXCEPT ![s] =
                      IF blink[s] + 1 = 2 * BlinkTimes THEN @ \ {"blink_led"} ELSE @]
    /\ UNCHANGED <<active, mgrVars, lag, wsEnv, hFPM, opened, max_template_size, taskVars, log>>

\* blink_led returned; device_ready is sent: lines 75-79
run_scan_ready(s) ==
    /\ Runs(s, "r_blink")
    /\ blink[s] = 2 * BlinkTimes
    /\ log' = send_event(s, "device_ready", 0)
    /\ scan_task' = sent(s, "r_send_ready")
    /\ UNCHANGED <<active, mgrVars, wsEnv, sdkVars, cancel_requested, outcomes, ret, device, capture_attempts,
                   quality_score, calls>>

----------------------------------------------------------------------------
(* _capture_image_with_retry *)

\* the loop running once more than max_attempts
MoreAttempts_off_by_one(s) == capture_attempts[s] <= MaxAttempts

\* "for attempt in range(1, max_attempts + 1)": another attempt follows
MoreAttempts(s) == capture_attempts[s] < MaxAttempts

\* the loop variable standing still
attempt_stuck(s) ==
    IF scan_task[s] = "r_send_ready" THEN 1 ELSE capture_attempts[s]

\* the value "attempt" takes in the next iteration of range(1, max_attempts + 1)
attempt(s) ==
    IF scan_task[s] = "r_send_ready" THEN 1 ELSE capture_attempts[s] + 1

\* top of the loop body: self._capture_attempts = attempt, the capture_attempt
\* event (lines 192-201); entered from device_ready or after the retry event
capture_attempt(s) ==
    /\ Runs(s, "r_send_ready") \/ Runs(s, "k_send_retry")
    /\ capture_attempts' = [capture_attempts EXCEPT ![s] = attempt(s)]
    /\ log' = send_event(s, "capture_attempt", capture_attempts'[s])
    /\ scan_task' = sent(s, "k_send_attempt")
    /\ UNCHANGED <<active, mgrVars, wsEnv, sdkVars, cancel_requested, outcomes, ret, device, quality_score, calls>>

\* run_in_executor(capture_image_ex, timeout_ms, quality_threshold): lines 205-210
capture_submit(s) ==
    /\ Runs(s, "k_send_attempt")
    /\ calls' = run_in_executor(s, "capture_image_ex")
    /\ scan_task' = [scan_task EXCEPT ![s] = "k_capture"]
    /\ UNCHANGED <<active, mgrVars, wsEnv, sdkVars, cancel_requested, outcomes, ret, device, capture_attempts,
                   quality_score, log>>

\* SecuGenError of capture_image_ex: SGFDX_ERROR_WRONG_IMAGE ("No valid
\* fingerprint detected"), or any other error code through _check_error
CaptureErrors == {"WrongImage", "SecuGenError"}

\* capture_image_ex returned the image (bytes of width * height, the size the
\* loop compares with), raised TimeoutError, or raised SecuGenError
capture_result(s) ==
    /\ Runs(s, "k_capture")
    /\ \/ /\ log' = send_event(s, "image_captured", 0)
          /\ scan_task' = sent(s, "k_send_image")
          /\ outcomes' = returned(s, "capture_image_ex", "image")
       \/ /\ log' = send_event(s, "timeout", capture_attempts[s])
          /\ scan_task' = sent(s, "k_send_timeout")
          /\ outcomes' = returned(s, "capture_image_ex", "TimeoutError")
       \/ \E e \in CaptureErrors :
             /\ log' = send_event(s, "capture_error", capture_attempts[s])
             /\ scan_task' = sent(s, "k_send_capture_error")
             /\ outcomes' = returned(s, "capture_image_ex", e)
    /\ UNCHANGED <<active, mgrVars, wsEnv, sdkVars, cancel_requested, ret, device, capture_attempts,
                   quality_score, calls>>

\* after a failed attempt, lines 236-246: asyncio.sleep(1) when attempts
\* remain; else the loop ends, None is returned and run_scan sends its error
\* event (lines 84-88)
capture_failed(s) ==
    /\ Runs(s, "k_send_timeout") \/ Runs(s, "k_send_capture_error")
    /\ IF MoreAttempts(s)
       THEN /\ scan_task' = [scan_task EXCEPT ![s] = "k_sleep"]
            /\ UNCHANGED log
       ELSE /\ scan_task' = sent(s, "r_send_nocapture")
            /\ log' = send_event(s, "error", 0)
    /\ UNCHANGED <<active, mgrVars, wsEnv, sdkVars, cancel_requested, outcomes, ret, device, capture_attempts,
                   quality_score, calls>>

\* the pause is over: the retry event, lines 238-242
capture_retry(s) ==
    /\ Runs(s, "k_sleep")
    /\ log' = send_event(s, "retry", 0)
    /\ scan_task' = sent(s, "k_send_retry")
    /\ UNCHANGED <<active, mgrVars, wsEnv, sdkVars, cancel_requested, outcomes, ret, device, capture_attempts,
                   quality_score, calls>>

\* "return None" of line 89, then the finally
run_scan_no_image(s) ==
    /\ Runs(s, "r_send_nocapture")
    /\ EnterCleanup(s, "None")
    /\ UNCHANGED <<active, mgrVars, wsEnv, sdkVars, cancel_requested, outcomes, device, capture_attempts,
                   quality_score, log>>

----------------------------------------------------------------------------
(* quality check and template extraction *)

\* image_captured was sent, the buffer is returned; _verify_image_quality
\* hands get_image_quality to the executor: lines 218, 92, 264-270
verify_image_quality(s) ==
    /\ Runs(s, "k_send_image")
    /\ calls' = run_in_executor(s, "get_image_quality")
    /\ scan_task' = [scan_task EXCEPT ![s] = "q_quality"]
    /\ UNCHANGED <<active, mgrVars, wsEnv, sdkVars, cancel_requested, outcomes, ret, device, capture_attempts,
                   quality_score, log>>

\* get_image_quality returned a score (quality_check event), or raised (the
\* default score 50 is returned and run_scan sends processing): lines 272-300
quality_result(s) ==
    /\ Runs(s, "q_quality")
    /\ \/ \E q \in QualityScores :
             /\ quality_score' = [quality_score EXCEPT ![s] = q]
             /\ log' = send_event(s, "quality_check", q)
             /\ scan_task' = sent(s, "q_send_quality")
             /\ outcomes' = scored(s, q)
       \/ /\ quality_score' = [quality_score EXCEPT ![s] = QualityDefault]
          /\ log' = send_event(s, "processing", 0)
          /\ scan_task' = sent(s, "r_send_processing")
          /\ outcomes' = returned(s, "get_image_quality", "raised")
    /\ UNCHANGED <<active, mgrVars, wsEnv, sdkVars, cancel_requested, ret, device, capture_attempts, calls>>

\* "if quality_score < 40": the warning event, else the processing event
quality_gate(s) ==
    /\ Runs(s, "q_send_quality")
    /\ IF quality_score[s] < QualityWarn
       THEN /\ log' = send_event(s, "warning", quality_score[s])
            /\ scan_task' = sent(s, "r_send_warning")
       ELSE /\ log' = send_event(s, "processing", 0)
            /\ scan_task' = sent(s, "r_send_processing")
    /\ UNCHANGED <<active, mgrVars, wsEnv, sdkVars, cancel_requested, outcomes, ret, device, capture_attempts,
                   quality_score, calls>>

\* a low score that ends the scan: an error event and the finally
quality_warned_abort(s) ==
    /\ Runs(s, "r_send_warning")
    /\ log' = send_event(s, "error", 0)
    /\ EnterCleanup(s, "None")
    /\ UNCHANGED <<active, mgrVars, wsEnv, sdkVars, cancel_requested, outcomes, device, capture_attempts,
                   quality_score>>

\* after the warning the workflow continues: the processing event
quality_warned(s) ==
    /\ Runs(s, "r_send_warning")
    /\ log' = send_event(s, "processing", 0)
    /\ scan_task' = sent(s, "r_send_processing")
    /\ UNCHANGED <<active, mgrVars, wsEnv, sdkVars, cancel_requested, outcomes, ret, device, capture_attempts,
                   quality_score, calls>>

\* run_in_executor(create_template, img_buffer, quality_score): lines 110-115
template_submit(s) ==
    /\ Runs(s, "r_send_processing")
    /\ calls' = run_in_executor(s, "create_template")
    /\ scan_task' = [scan_task EXCEPT ![s] = "r_template"]
    /\ UNCHANGED <<active, mgrVars, wsEnv, sdkVars, cancel_requested, outcomes, ret, device, capture_attempts,
                   quality_score, log>>

\* create_template returned the template (capture_success is sent, lines
\* 125-132) or raised: inadequate minutiae or another SDK error, or, before any
\* SDK call, the template format that was never set (secu_gen.py lines 441-442)
create_template(s) ==
    /\ Runs(s, "r_template")
    /\ \/ /\ max_template_size[s] # 0
          /\ log' = send_event(s, "capture_success", quality_score[s])
          /\ scan_task' = sent(s, "r_send_success")
          /\ outcomes' = returned(s, "create_template", "template")
       \/ \* the SDK reports inadequate minutiae or another error
          /\ max_template_size[s] # 0
          /\ Except(s)
          /\ outcomes' = returned(s, "create_template", "raised")
       \/ \* "if self.max_template_size == 0: raise SecuGenError(...)"
          /\ max_template_size[s] = 0
          /\ Except(s)
          /\ outcomes' = returned(s, "create_template", "format not set")
    /\ UNCHANGED <<active, mgrVars, wsEnv, sdkVars, cancel_requested, ret, device, capture_attempts,
                   quality_score, calls>>

\* the template returned with the finally left out
run_scan_return_no_finally(s) ==
    /\ Runs(s, "r_send_success")
    /\ ret' = [ret EXCEPT ![s] = "template"]
    /\ scan_task' = [scan_task EXCEPT ![s] = "done"]
    /\ UNCHANGED <<active, mgrVars, wsEnv, sdkVars, cancel_requested, outcomes, device, capture_attempts,
                   quality_score, calls, log>>

\* "return template" of line 134, then the finally
run_scan_return(s) ==
    /\ Runs(s, "r_send_success")
    /\ EnterCleanup(s, "template")
    /\ UNCHANGED <<active, mgrVars, wsEnv, sdkVars, cancel_requested, outcomes, device, capture_attempts,
                   quality_score, log>>

\* the except clause returning without the finally
run_scan_failed_no_finally(s) ==
    /\ Runs(s, "x_send_error")
    /\ ret' = [ret EXCEPT ![s] = "None"]
    /\ scan_task' = [scan_task EXCEPT ![s] = "done"]
    /\ UNCHANGED <<active, mgrVars, wsEnv, sdkVars, cancel_requested, outcomes, device, capture_attempts,
                   quality_score, calls, log>>

\* "return None" of line 142 (the except clause), then the finally
run_scan_failed(s) ==
    /\ Runs(s, "x_send_error")
    /\ EnterCleanup(s, "None")
    /\ UNCHANGED <<active, mgrVars, wsEnv, sdkVars, cancel_requested, outcomes, device, capture_attempts,
                   quality_score, log>>

----------------------------------------------------------------------------
(* _cleanup_device *)

\* SecuGenDevice.close: nothing without a handle, else SGFPM_CloseDevice
close(s) == [opened EXCEPT ![s] = IF hFPM[s] = "valid" THEN FALSE ELSE @]

\* SecuGenDevice.terminate: the handle is reset
terminate(s) == [hFPM EXCEPT ![s] = "null"]

\* set_led(False) returned; run_in_executor(close): lines 311-316
cleanup_led(s) ==
    /\ Runs(s, "f_led")
    /\ led' = set_led(s, FALSE)
    /\ calls' = run_in_executor(s, "close")
    /\ scan_task' = [scan_task EXCEPT ![s] = "f_close"]
    /\ UNCHANGED <<active, mgrVars, wsEnv, hFPM, opened, max_template_size, blink, orphans,
                   cancel_requested, outcomes, ret, device, capture_attempts, quality_score, log>>

\* close returned; run_in_executor(terminate): lines 314-321
cleanup_close(s) ==
    /\ Runs(s, "f_close")
    /\ opened' = close(s)
    /\ calls' = run_in_executor(s, "terminate")
    /\ scan_task' = [scan_task EXCEPT ![s] = "f_terminate"]
    /\ UNCHANGED <<active, mgrVars, wsEnv, hFPM, max_template_size, led, blink, orphans,
                   cancel_requested, outcomes, ret, device, capture_attempts, quality_score, log>>

\* terminate returned; the finally ends and the task finishes
cleanup_terminate(s) ==
    /\ Runs(s, "f_terminate")
    /\ hFPM' = terminate(s)
    /\ scan_task' = [scan_task EXCEPT ![s] =
                        IF ret[s] = "cancelled" THEN "cancelled" ELSE "done"]
    /\ UNCHANGED <<active, mgrVars, wsEnv, opened, max_template_size, led, blink, orphans,
                   cancel_requested, outcomes, ret, device, capture_attempts, quality_score,
                   calls, log>>

----------------------------------------------------------------------------
(* cancellation *)

\* The executor call the task was awaiting keeps running in its thread.
Orphaned(s) ==
    LET op == Awaited(scan_task[s])
    IN  IF op = "none" \/ (op = "blink_led" /\ blink[s] = 2 * BlinkTimes)
        THEN orphans[s]
        ELSE orphans[s] \cup {op}

\* CancelledError is raised at the await the task is suspended in.  It is no
\* Exception: no except clause of run_scan, _cleanup_device or _stop_led
\* catches it.  Raised in the try body it runs the finally (_cleanup_device);
\* raised inside _cleanup_device it ends the cleanup where it stands.
scan_cancelled(s) ==
    /\ cancel_requested[s]
    /\ scan_task[s] \notin {"none", "done", "cancelled"}
    /\ cancel_requested' = [cancel_requested EXCEPT ![s] = FALSE]
    /\ orphans' = [orphans EXCEPT ![s] = Orphaned(s)]
    /\ IF scan_task[s] \in CleanupPcs
       THEN /\ scan_task' = [scan_task EXCEPT ![s] = "cancelled"]
            /\ ret' = [ret EXCEPT ![s] = "cancelled"]
            /\ UNCHANGED calls
       ELSE EnterCleanup(s, "cancelled")
    /\ UNCHANGED <<active, mgrVars, lag, wsEnv, hFPM, opened, max_template_size, led, blink, device,
                   capture_attempts, quality_score, outcomes, log>>

\* A device call whose awaiter is gone returns in its worker thread.
orphan_returns(s) ==
    \E op \in orphans[s] \ {"blink_led"} : \E ok \in BOOLEAN :
       /\ orphans' = [orphans EXCEPT ![s] = @ \ {op}]
       /\ hFPM' = CASE op = "create" /\ ok -> [hFPM EXCEPT ![s] = "valid"]
                    [] op = "terminate"    -> terminate(s)
                    [] OTHER               -> hFPM
       /\ opened' = CASE op = "open" /\ ok /\ hFPM[s] = "valid"
                                           -> [opened EXCEPT ![s] = TRUE]
                      [] op = "close"      -> close(s)
                      [] OTHER             -> opened
       /\ max_template_size' =
             IF op = "set_template_format" /\ ok
             THEN [max_template_size EXCEPT ![s] = 1] ELSE max_template_size
       /\ led' = IF op = "set_led" THEN set_led(s, FALSE) ELSE led
       /\ UNCHANGED <<active, mgrVars, lag, wsEnv, blink, taskVars, log>>

----------------------------------------------------------------------------
(* Specifications *)

\* the client
ClientStep(s) == ClientDisconnect(s) \/ ClientMessage(s) \/ receive_text(s)

\* ws_scan as long as neither task is cancelled
HandlerStep(s) ==
    \/ ws_accept(s) \/ ws_lookup(s) \/ ws_not_found(s) \/ ws_create_tasks(s)
    \/ ws_scan_finished(s) \/ ws_return_open(s)
    \/ ws_close_returns(s) \/ ws_close_error(s) \/ ws_close_error_returns(s)

\* ws_scan after a successful scan: lines 97-126
StoreStep(s) == ws_store(s) \/ ws_done_event(s) \/ ws_close_normal(s)

\* run_scan up to device_ready, its except clause and its finally
DeviceStep(s) ==
    \/ run_scan_start(s) \/ run_scan_create(s) \/ run_scan_init(s)
    \/ run_scan_open(s) \/ configure_brightness(s) \/ configure_format(s)
    \/ configure_done(s) \/ run_scan_info(s) \/ blink_led(s) \/ run_scan_ready(s)
    \/ run_scan_failed(s)
    \/ cleanup_led(s) \/ cleanup_close(s) \/ cleanup_terminate(s)

\* run_scan from the first capture attempt on
CaptureStep(s) ==
    \/ capture_attempt(s) \/ capture_submit(s) \/ capture_result(s)
    \/ capture_failed(s) \/ capture_retry(s) \/ run_scan_no_image(s)
    \/ verify_image_quality(s) \/ quality_result(s) \/ quality_gate(s)
    \/ quality_warned(s) \/ template_submit(s) \/ create_template(s)
    \/ run_scan_return(s)

\* cancellation of the scan task or of the handler
CancelStep(s) ==
    \/ ws_disconnected(s) \/ ws_cancelled(s) \/ scan_cancelled(s)
    \/ orphan_returns(s)

\* One channel.  utcnow() is left out: no step of the code reads it.
Next ==
    \E s \in Sessions :
        ClientStep(s) \/ HandlerStep(s) \/ StoreStep(s) \/ DeviceStep(s)
            \/ CaptureStep(s) \/ CancelStep(s)

Spec == Init /\ [][Next]_vars

\* One channel whose client stays, with the time passing.
NextClock ==
    \E s \in Sessions :
        Tick(s) \/ HandlerStep(s) \/ StoreStep(s) \/ DeviceStep(s) \/ CaptureStep(s)

SpecClock == Init /\ [][NextClock]_vars

\* Two channels whose clients stay, up to the first capture attempt.
NextTwo == \E s \in Sessions : HandlerStep(s) \/ DeviceStep(s)

SpecTwo == InitTwo /\ [][NextTwo]_vars

----------------------------------------------------------------------------
(* Properties *)

Exited(s) == ws_pc[s] \in {"returned", "raised"}

\* the scan task and every thread it started have ended
Ended(s) == scan_task[s] \in EndedPcs /\ orphans[s] = {}

\* the device of the session is closed and its handle released
CleanedUp(s) == ~opened[s] /\ hFPM[s] = "null"

TerminalEvents == {"capture_success", "capture_failed", "error"}

\* positions of run_scan at which no terminal event was sent yet
NonTerminalPcs ==
    {"r_create", "r_init", "r_open", "c_brightness", "c_format",
     "c_send_configured", "r_info", "r_blink", "r_send_ready", "k_send_attempt",
     "k_capture", "k_send_image", "k_send_timeout", "k_send_capture_error",
     "k_sleep", "k_send_retry", "q_quality", "q_send_quality", "r_send_warning",
     "r_send_processing", "r_template"}

HasEvent(s, t) == \E i \in DOMAIN log[s] : log[s][i].type = t
HasClose(s, code) ==
    \E i \in DOMAIN log[s] : log[s][i].type = "close" /\ log[s][i].n = code

\* open returned: set_brightness is the call that follows it
WasOpened(s) == Count(calls[s], "set_brightness") > 0

\* C1: once a session that opened the device has ended, the cleanup routine
\* was invoked exactly once and carried out each of its steps (LED off, close,
\* terminate) exactly once.
C1_CleanupExactlyOnce ==
    \A s \in Sessions :
        (Ended(s) /\ WasOpened(s)) =>
            /\ Count(calls[s], "_cleanup_device") = 1
            /\ Count(calls[s], "set_led") = 1
            /\ Count(calls[s], "close") = 1
            /\ Count(calls[s], "terminate") = 1

\* C2: when ws_scan has returned, the device of its session is closed and
\* terminated.
C2_DeviceClosedOnReturn ==
    \A s \in Sessions : ws_pc[s] = "returned" => CleanedUp(s)

\* C3: ws.close is attempted at most once on a channel.
C3_SingleClose ==
    \A s \in Sessions : CountType(log[s], "close") <= 1

\* C4: on a channel whose client stays connected, at most one terminal event
\* (capture_success, capture_failed, error) is emitted, it is followed by no
\* other event, only by the close of the channel, and the channel is not closed
\* with a normal or error status before a terminal event was emitted.
C4_OneTerminalEvent ==
    \A s \in Sessions : \A i \in DOMAIN log[s] :
        client[s] = "connected" =>
        /\ log[s][i].type \in TerminalEvents =>
              \A j \in DOMAIN log[s] : j > i => log[s][j].type = "close"
        /\ (log[s][i].type = "close" /\ log[s][i].n # 1001) =>
              \E j \in DOMAIN log[s] : j < i /\ log[s][j].type \in TerminalEvents

\* C5: when the watcher finished while run_scan had produced no terminal
\* event and the scan task was cancelled, then once the task and its threads
\* have ended the reader is closed, the channel was closed with 1001, and no capture_success or capture_failed follows that close.
C5_CancelCleansUp ==
    \A s \in Sessions :
        (fired_at[s] \in NonTerminalPcs /\ scan_task[s] = "cancelled"
            /\ orphans[s] = {}) =>
            /\ ~opened[s]
            /\ HasClose(s, 1001)
            /\ \A i, j \in DOMAIN log[s] :
                  (log[s][i].type = "close" /\ log[s][i].n = 1001 /\ j > i) =>
                      log[s][j].type \notin {"capture_success", "capture_failed"}

\* C6: when ws_scan has exited after starting the scan task, the task has
\* finished or its cancellation was requested.
C6_TaskNotLeftRunning ==
    \A s \in Sessions :
        (Exited(s) /\ scan_task[s] # "none") =>
            \/ scan_task[s] \in EndedPcs
            \/ cancel_requested[s]
            \/ ret[s] = "cancelled"

\* C7: close and terminate of the cleanup never run while a capture, blink or
\* template call of the session, abandoned by the cancellation, is still
\* executing in its thread, and no such call is executing once the scan task
\* has ended.
C7_NoCallDuringCleanup ==
    \A s \in Sessions :
        scan_task[s] \in {"f_close", "f_terminate", "done", "cancelled"} =>
            orphans[s] \cap {"capture_image_ex", "blink_led", "create_template"} = {}

\* C8: two sessions never have the reader opened at the same time.
C8_ExclusiveDevice ==
    \A s1, s2 \in Sessions : (s1 # s2) => ~(opened[s1] /\ opened[s2])

\* C9: a session never makes more than MaxAttempts capture attempts; while no
\* image was captured no capture_success is emitted and nothing is stored; and
\* a run_scan that finished after exhausting its attempts returned None and
\* sent an error event.
C9_BoundedAttempts ==
    \A s \in Sessions :
        /\ capture_attempts[s] <= MaxAttempts
        /\ Count(calls[s], "capture_image_ex") <= MaxAttempts
        /\ ~HasEvent(s, "image_captured") =>
              /\ ~HasEvent(s, "capture_success")
              /\ stored[s] = 0
        /\ (scan_task[s] = "done" /\ ~HasEvent(s, "image_captured")) =>
              /\ ret[s] = "None"
              /\ HasEvent(s, "error")
        /\ (ws_pc[s] = "returned" /\ scan_task[s] = "done"
              /\ ~HasEvent(s, "image_captured")
              /\ ~HasClose(s, 1001)) => HasEvent(s, "capture_failed")

\* C9 witness: all three attempts failed, run_scan returned None and ws_scan
\* answered capture_failed.
C9_Witness ==
    /\ Count(calls[1], "capture_image_ex") = MaxAttempts
    /\ ~HasEvent(1, "image_captured")
    /\ scan_task[1] = "done"
    /\ ws_pc[1] = "returned"
    /\ HasEvent(1, "capture_failed")

\* C10: a step that run_scan takes from a non-terminal position once utcnow()
\* has reached expires_at ends the workflow: it leads to the error event or
\* into the cleanup.
C10_ExpiryForced ==
    [][\A s \in Sessions :
          (clock[s] \in {"at", "after"} /\ scan_task[s] \in NonTerminalPcs
              /\ scan_task'[s] # scan_task[s]) =>
              scan_task'[s] \in CleanupPcs \cup EndedPcs
                                \cup {"x_send_error", "r_send_nocapture"}]_vars

\* the types of the events handed to send_event, in the order of the calls
EventTypes(s) ==
    LET ev == SelectSeq(log[s], LAMBDA e : e.type # "close")
    IN  [i \in DOMAIN ev |-> ev[i].type]

\* every event and the close reached the client
AllDelivered(s) == \A i \in DOMAIN log[s] : log[s][i].ok

\* identity found, device configured, image on attempt 1 with quality 75,
\* template extracted and stored, ws_scan returned after close(1000)
ScenarioA(s) ==
    /\ ws_pc[s] = "returned"
    /\ HasClose(s, 1000)
    /\ AllDelivered(s)
    /\ max_template_size[s] # 0
    /\ capture_attempts[s] = 1
    /\ \E i \in DOMAIN log[s] : log[s][i].type = "quality_check" /\ log[s][i].n = 75

\* C11: in the first-attempt success scenario with quality 75 the events sent
\* are exactly device_init, device_ready, capture_attempt, image_captured,
\* quality_check, processing, capture_success, and the template was handed to
\* the store once.
C11_ScenarioA ==
    \A s \in Sessions :
        ScenarioA(s) =>
            /\ EventTypes(s) = <<"device_init", "device_ready", "capture_attempt",
                                 "image_captured", "quality_check", "processing",
                                 "capture_success">>
            /\ stored[s] = 1

\* the events handed to send_event, in the order of the calls
Events(s) == SelectSeq(log[s], LAMBDA e : e.type # "close")

\* event b may directly follow event a from image_captured on (run_scan lines
\* 92-142, then ws_scan lines 90-124)
Follows(a, b) ==
    CASE a = "image_captured"  -> b \in {"quality_check", "processing"}
      [] a = "quality_check"   -> b \in {"warning", "processing"}
      [] a = "warning"         -> b = "processing"
      [] a = "processing"      -> b \in {"capture_success", "error"}
      [] a = "capture_success" -> b \in {"capture_success", "error"}
      [] a = "error"           -> b = "capture_failed"
      [] OTHER                 -> FALSE

AllAttemptsFailed(s) ==
    /\ Count(calls[s], "capture_image_ex") = MaxAttempts
    /\ CountType(log[s], "timeout") + CountType(log[s], "capture_error") = MaxAttempts
    /\ scan_task[s] = "done"

\* ws_scan came out of asyncio.wait with scan_task done and disconnect_task
\* pending ("disconnect_task.cancel()", line 84), and has returned
FinishedFirst(s) == ws_pc[s] = "returned" /\ disconnect_task[s] = "cancelled"

\* C13: when all capture attempts failed and the workflow finished before the
\* watcher, the last event sent is capture_failed, it reached a client that is
\* still there, and ws_scan returned without any ws.close.
C13_AllFailedKeepsOpen ==
    \A s \in Sessions :
        (AllAttemptsFailed(s) /\ FinishedFirst(s)) =>
            /\ Events(s)[Len(Events(s))].type = "capture_failed"
            /\ client[s] = "connected" => Events(s)[Len(Events(s))].ok
            /\ CountType(log[s], "close") = 0
            /\ chan[s] = "open"

\* C13 witness: a timeout, a capture error and a timeout, then capture_failed
\* delivered and ws_scan returned.
C13_Witness ==
    /\ AllAttemptsFailed(1) /\ FinishedFirst(1)
    /\ CountType(log[1], "timeout") = 2
    /\ CountType(log[1], "capture_error") = 1
    /\ client[1] = "connected"
    /\ HasEvent(1, "capture_failed")

\* run_scan returned a template and ws_scan stored it without an exception
Succeeded(s) == ret[s] = "template" /\ ~HasEvent(s, "error")

\* C14: when the workflow finished before the watcher and ws_scan has
\* returned, the watcher was cancelled, a terminal event was sent, and the
\* channel was closed: with 1000 after a success, with an error status (neither
\* 1000 nor 1001) after a failure.
C14_FinishedFirstCloses ==
    \A s \in Sessions :
        FinishedFirst(s) =>
            /\ \E i \in DOMAIN log[s] : log[s][i].type \in TerminalEvents
            /\ IF Succeeded(s)
               THEN HasClose(s, 1000)
               ELSE \E i \in DOMAIN log[s] :
                       log[s][i].type = "close" /\ log[s][i].n \notin {1000, 1001}

\* ws_scan is in, or went through, the branch "if not rec:" (lines 45-51)
NotFound(s) == ws_pc[s] \in {"nf_send", "cl_4000"} \/ HasClose(s, 4000)

\* C15: when no record is found, the error event is the first thing sent, the
\* close that follows it directly is close(4000), no ScanSession and no task
\* is created and no device call is issued; and with the client still there
\* the error event and the close(4000) are all that ws_scan sends.
C15_NotFound ==
    \A s \in Sessions :
        NotFound(s) =>
            /\ log[s][1].type = "error"
            /\ Len(log[s]) >= 2 => (log[s][2].type = "close" /\ log[s][2].n = 4000)
            /\ ~HasEvent(s, "device_init")
            /\ device[s] = "None" /\ calls[s] = <<>>
            /\ scan_task[s] = "none" /\ disconnect_task[s] = "none"
            /\ client[s] = "connected" =>
                  /\ Len(log[s]) <= 2
                  /\ \A i \in DOMAIN log[s] : log[s][i].ok

\* C15 witness: the not-found path ran to its return with the client there.
C15_Witness ==
    /\ ws_pc[1] = "returned"
    /\ client[1] = "connected"
    /\ HasClose(1, 4000)
    /\ CountType(log[1], "error") = 1

----------------------------------------------------------------------------
(* run_scan with and without a client to send to *)

IsPrefix(a, b) == Len(a) <= Len(b) /\ SubSeq(b, 1, Len(a)) = a

\* Two sessions whose handlers wait in asyncio.wait; no watcher is looked at:
\* run_scan(send_event) alone.
InitSend ==
    /\ InitWith("start")
    /\ ws_pc = [s \in Sessions |-> "wait"]

\* Session 1 runs run_scan with its client there.  Session 2 then runs it with
\* a client that leaves at any moment, the device calls returning to it what
\* they returned to session 1.
NextSend ==
    \/ DeviceStep(1) \/ CaptureStep(1)
    \/ /\ scan_task[1] = "done"
       /\ ClientDisconnect(2) \/ DeviceStep(2) \/ CaptureStep(2)
       /\ IsPrefix(outcomes'[2], outcomes[1])

SpecSend == InitSend /\ [][NextSend]_vars

\* C16: whatever sends of session 2 failed, run_scan made the device calls it
\* made in session 1 for the same device outcomes: its calls are at every
\* moment a prefix of those of session 1, and once it has finished it consumed
\* the same outcomes, made the same calls, handed the same events to
\* send_event, returned the same result and ran _cleanup_device once.
C16_SendFailureSwallowed ==
    scan_task[1] = "done" =>
        /\ IsPrefix(outcomes[2], outcomes[1]) => IsPrefix(calls[2], calls[1])
        /\ scan_task[2] \in EndedPcs =>
              /\ scan_task[2] = "done"
              /\ outcomes[2] = outcomes[1]
              /\ calls[2] = calls[1]
              /\ EventTypes(2) = EventTypes(1)
              /\ ret[2] = ret[1]
              /\ Count(calls[2], "_cleanup_device") = 1
              /\ CleanedUp(2)

\* C16 witness: session 2 lost its client after some events were delivered,
\* later sends failed, and run_scan still returned the template.
C16_Witness ==
    /\ scan_task[1] = "done" /\ scan_task[2] = "done"
    /\ ret[2] = "template"
    /\ \E i, j \in DOMAIN log[2] : log[2][i].ok /\ ~log[2][j].ok

\* SecuGenDevice(), create, init or open raised in run_scan
InitFailed(s) ==
    \E i \in DOMAIN outcomes[s] :
        /\ outcomes[s][i][1] \in {"SecuGenDevice", "create", "init", "open"}
        /\ outcomes[s][i][2] = "raised"

\* C17: when the constructor, create, init or open raised, none of create, init
\* and open was called twice, no configuration, blink, capture, quality or
\* template call was made and no capture_attempt event was sent; the error
\* event was sent; and when run_scan has finished it returned None after one
\* run of _cleanup_device.  The only LED command is the set_led(False) of the
\* cleanup routine.
C17_InitFailureIsFatal ==
    \A s \in Sessions :
        InitFailed(s) =>
            /\ \A op \in {"create", "init", "open"} : Count(calls[s], op) <= 1
            /\ \A i \in DOMAIN calls[s] :
                   calls[s][i] \in {"create", "init", "open", "_cleanup_device",
                                    "set_led", "close", "terminate"}
            /\ ~HasEvent(s, "capture_attempt")
            /\ ~HasEvent(s, "device_ready")
            /\ HasEvent(s, "error")
            /\ ~opened[s]
            /\ scan_task[s] = "done" =>
                   /\ ret[s] = "None"
                   /\ Count(calls[s], "_cleanup_device") = 1
                   /\ Count(calls[s], "set_led") <= 1
            /\ (scan_task[s] = "done" /\ orphans[s] = {}) => CleanedUp(s)

\* C17 witness: open raised, run_scan finished and ws_scan answered.
C17_Witness ==
    /\ outcomes[1] = << <<"SecuGenDevice", "ok", 0>>, <<"create", "ok", 0>>,
                        <<"init", "ok", 0>>, <<"open", "raised", 0>> >>
    /\ scan_task[1] = "done"
    /\ ws_pc[1] = "returned"

\* set_template_format raised inside _configure_device
ConfigFailed(s) ==
    \E i \in DOMAIN outcomes[s] : outcomes[s][i] = <<"set_template_format", "raised", 0>>

\* C18: after a failed set_template_format the workflow goes on: capture
\* attempts are preceded by device_ready, and template extraction never fails
\* for the sole reason that the format was not set.
C18_ConfigFailureNonFatal ==
    \A s \in Sessions :
        ConfigFailed(s) =>
            /\ HasEvent(s, "capture_attempt") => HasEvent(s, "device_ready")
            /\ Count(calls[s], "create_template") > 0 => HasEvent(s, "image_captured")
            /\ \A i \in DOMAIN outcomes[s] :
                  outcomes[s][i] # <<"create_template", "format not set", 0>>

----------------------------------------------------------------------------
(* ScanSession.cancel after run_scan *)

\* ScanSession.cancel (lines 366-370), called once after run_scan has returned:
\* self.active = False, then _cleanup_device again, on the same device object
cancel(s) ==
    /\ Runs(s, "done")
    /\ Count(calls[s], "_cleanup_device") = 1
    /\ active' = [active EXCEPT ![s] = FALSE]
    /\ EnterCleanup(s, ret[s])
    /\ UNCHANGED <<mgrVars, wsEnv, sdkVars, cancel_requested, outcomes, device, capture_attempts,
                   quality_score, log>>

\* run_scan alone on one session, then cancel()
NextCancel == DeviceStep(1) \/ CaptureStep(1) \/ cancel(1)

SpecCancel == InitSend /\ [][NextCancel]_vars

\* C19: a second run of _cleanup_device on a session finds no handle and no
\* opened reader, so that close() and terminate() return at once, and it
\* issues no second LED command.
C19_CleanupIdempotent ==
    \A s \in Sessions :
        Count(calls[s], "_cleanup_device") = 2 =>
            /\ hFPM[s] = "null"
            /\ ~opened[s]
            /\ led = "off"
            /\ Count(calls[s], "set_led") <= 1

\* the SDK's template extraction failed on a captured image (inadequate
\* minutiae, secu_gen.py lines 490-492, or another SDK error)
ExtractionFailed(s) ==
    \E i \in DOMAIN outcomes[s] : outcomes[s][i] = <<"create_template", "raised", 0>>

\* C20: when template extraction raised after an image was captured, no
\* capture_success is ever sent and nothing is stored; and when the workflow
\* finished before the watcher and ws_scan has returned, the last event is
\* capture_failed, _cleanup_device ran once and released the device, and
\* ws_scan closed nothing.
C20_InadequateMinutiae ==
    \A s \in Sessions :
        ExtractionFailed(s) =>
            /\ HasEvent(s, "image_captured")
            /\ ~HasEvent(s, "capture_success")
            /\ stored[s] = 0
            /\ FinishedFirst(s) =>
                  /\ Events(s)[Len(Events(s))].type = "capture_failed"
                  /\ Count(calls[s], "_cleanup_device") = 1
                  /\ CleanedUp(s)
                  /\ CountType(log[s], "close") = 0
                  /\ chan[s] = "open"

\* C20 witness: extraction failed, capture_failed was delivered and ws_scan
\* returned with the channel open.
C20_Witness ==
    /\ ExtractionFailed(1) /\ FinishedFirst(1)
    /\ client[1] = "connected"
    /\ HasEvent(1, "capture_failed")

\* run_scan returned a template, ws_scan handed it to the store, and
\* encrypt_bytes or database.execute raised (ws_routes.py lines 108-114)
StoreFailed(s) ==
    /\ ws_pc[s] \in {"w_send_store_err", "returned"}
    /\ stored[s] = 1
    /\ CountType(log[s], "close") = 0

\* C21: when storing the template failed, the last event is an error event,
\* no capture_failed and no done event is sent, and the only capture_success
\* is the one run_scan sent for the capture, before the store was tried: the
\* "saved" capture_success of ws_scan and the close(1000) are never sent.
C21_StoreFailure ==
    \A s \in Sessions :
        StoreFailed(s) =>
            /\ Events(s)[Len(Events(s))].type = "error"
            /\ client[s] = "connected" => Events(s)[Len(Events(s))].ok
            /\ ~HasEvent(s, "capture_failed")
            /\ ~HasEvent(s, "done")
            /\ CountType(log[s], "error") = 1
            /\ CountType(log[s], "capture_success") = 1
            /\ \A i \in DOMAIN log[s] :
                  log[s][i].type = "capture_success" =>
                      /\ i < Len(log[s])
                      /\ log[s][i + 1].type = "error"

\* C21 witness: the store failed, the error event reached the client and
\* ws_scan returned.
C21_Witness ==
    /\ StoreFailed(1)
    /\ ws_pc[1] = "returned"
    /\ client[1] = "connected"
    /\ HasEvent(1, "error")

\* get_image_quality returned a score below 40 to the session
LowQuality(s) ==
    \E i \in DOMAIN outcomes[s] :
        /\ outcomes[s][i][1] = "get_image_quality"
        /\ outcomes[s][i][2] = "score"
        /\ outcomes[s][i][3] < QualityWarn

\* C22: in a scan that nothing cancels, a score below 40 brings exactly one
\* warning event, directly followed by the processing event and by the one
\* call of create_template; no error event comes from the score, and the scan
\* returns the template exactly when create_template returned one.
C22_LowQualityAdvisory ==
    \A s \in Sessions :
        LowQuality(s) =>
            /\ scan_task[s] # "q_send_quality" =>
                  CountType(log[s], "warning") = 1
            /\ scan_task[s] \notin {"q_send_quality", "r_send_warning"} =>
                  CountType(log[s], "processing") = 1
            /\ scan_task[s] \notin {"q_send_quality", "r_send_warning",
                                    "r_send_processing"} =>
                  Count(calls[s], "create_template") = 1
            /\ \A i \in DOMAIN log[s] :
                  /\ log[s][i].type = "warning" =>
                        /\ log[s][i - 1].type = "quality_check"
                        /\ i < Len(log[s]) => log[s][i + 1].type = "processing"
                  /\ log[s][i].type = "error" =>
                        outcomes[s][Len(outcomes[s])][1] = "create_template"
            /\ scan_task[s] = "done" =>
                  /\ outcomes[s][Len(outcomes[s])][1] = "create_template"
                  /\ ret[s] = "template" <=>
                        outcomes[s][Len(outcomes[s])][2] = "template"

\* C22 witness: a scan whose image scored below 40 returned its template.
C22_Witness ==
    /\ LowQuality(1)
    /\ scan_task[1] = "done"
    /\ ret[1] = "template"
    /\ HasEvent(1, "warning")

\* C23: the active flag of a session is true from its creation until run_scan
\* has ended, and false in every state after run_scan has ended (returned the
\* template, returned None, or was cancelled).
C23_ActiveFalseAfterEnd ==
    \A s \in Sessions :
        /\ scan_task[s] \notin {"none", "done", "cancelled"} => active[s]
        /\ scan_task[s] \in {"done", "cancelled"} => ~active[s]

\* C24: the template is handed to the store at most once, and only the
\* template that a finished run_scan returned, by a handler that saw the scan
\* finish before disconnect_task: never after a disconnect (close 1001), a
\* None result (capture_failed) or an unknown identity.  The hand-over is the
\* first thing ws_scan does with the result: no event lies between the
\* capture_success of run_scan and the store.
C24_StoreOnlyTemplate ==
    \A s \in Sessions :
        /\ stored[s] <= 1
        /\ stored[s] = 1 =>
              /\ scan_task[s] = "done"
              /\ ret[s] = "template"
              /\ outcomes[s][Len(outcomes[s])] = <<"create_template", "template", 0>>
              /\ disconnect_task[s] = "cancelled"
              /\ ~HasClose(s, 1001)
              /\ ~HasEvent(s, "capture_failed")
              /\ ~NotFound(s)
        /\ ws_pc[s] = "w_store" => log[s][Len(log[s])].type = "capture_success"
        /\ (disconnect_task[s] = "cancelled" /\ ret[s] = "template") => stored[s] = 1

\* C24 witness: the scan returned a template and the handler handed it over.
C24_Witness ==
    /\ ws_pc[1] = "w_store"
    /\ stored[1] = 1
    /\ ret[1] = "template"

\* the thread of SecuGenDevice.blink_led is still issuing its set_led calls
Blinking(s) == (scan_task[s] = "r_blink" \/ "blink_led" \in orphans[s]) /\ blink[s] < 2 * BlinkTimes

\* C25: while the thread of blink_led is issuing its LED commands, no other
\* LED command of the session (the set_led(False) of the cleanup) is in the
\* worker pool.
C25_LedSingleOwner ==
    \A s \in Sessions :
        Blinking(s) =>
            /\ Awaited(scan_task[s]) # "set_led"
            /\ "set_led" \notin orphans[s]

\* what the device call run_scan awaited last returned
LastOutcome(s) == outcomes[s][Len(outcomes[s])][2]

\* C26: a failed attempt is classified by its cause: a timeout event after
\* TimeoutError, a capture_error event only after a device error other than
\* "no valid fingerprint"; the pause is taken only while attempts remain, and
\* the loop gives up only after attempt MaxAttempts.
C26_FailureClassified ==
    \A s \in Sessions :
        /\ scan_task[s] = "k_send_timeout" => LastOutcome(s) = "TimeoutError"
        /\ scan_task[s] = "k_send_capture_error" => LastOutcome(s) = "SecuGenError"
        /\ scan_task[s] = "k_sleep" => capture_attempts[s] < MaxAttempts
        /\ scan_task[s] = "r_send_nocapture" => capture_attempts[s] = MaxAttempts

----------------------------------------------------------------------------
(* ConnectionManager (backend/app/websocket/websocket_manager.py), one       *)
(* connection_type.  Everything runs on the event loop: a coroutine is       *)
(* interleaved with the others only where it awaits.                        *)

scanVars == <<wsVars, envVars, sdkVars, taskVars, lag, active, log>>

\* set.add / set.discard seen by the live iterator of the for loop.  The
\* iterator walks the hash table: an entry added behind it is not passed, one
\* added ahead of it is; a discarded entry is not passed any more.
added(c, passes) ==
    IF bcast \in {"next", "send"} /\ passes THEN it_todo \cup {c} ELSE it_todo
discarded(c) == it_todo \ {c}

\* ConnectionManager.connect: await websocket.accept(), then the add
connect(c) ==
    /\ sock[c] = "new"
    /\ sock' = [sock EXCEPT ![c] = "open"]
    /\ active_connections' = active_connections \cup {c}
    /\ \E passes \in BOOLEAN : it_todo' = added(c, passes)
    /\ members' = members \cup {c}
    /\ UNCHANGED <<scanVars, bcast, it_used, connection, disconnected, attempted, whole>>

\* the client of c goes away: send_text on c raises from now on
client_close(c) ==
    /\ sock[c] = "open"
    /\ sock' = [sock EXCEPT ![c] = "closed"]
    /\ UNCHANGED <<scanVars, active_connections, bcast, it_used, it_todo, connection,
                   disconnected, attempted, whole, members>>

\* receive_text raised WebSocketDisconnect in the handler of c:
\* manager.disconnect(websocket, connection_type), lines 30-32 and 113-114
disconnect(c) ==
    /\ sock[c] = "closed"
    /\ c \in members
    /\ active_connections' = active_connections \ {c}
    /\ it_todo' = discarded(c)
    /\ members' = members \ {c}
    /\ whole' = whole \ {c}
    /\ UNCHANGED <<scanVars, sock, bcast, it_used, connection, disconnected, attempted>>

\* broadcast_to_type is called: disconnected = set(); the for statement
\* creates the iterator of the set, lines 45-46
broadcast_to_type ==
    /\ bcast = "idle"
    /\ it_used' = Cardinality(active_connections)
    /\ it_todo' = active_connections
    /\ disconnected' = {}
    /\ whole' = active_connections
    /\ bcast' = "next"
    /\ UNCHANGED <<scanVars, active_connections, sock, connection, attempted, members>>

\* the for statement asks the set iterator for the next entry (line 46).  The
\* iterator raises RuntimeError ("Set changed size during iteration") when
\* len(set) is not what it was at its creation: this is outside the try of
\* the loop body, so that broadcast_to_type ends there.  At the end of the
\* set the second loop discards the connections whose send raised (54-55).
for_next ==
    /\ bcast = "next"
    /\ \/ /\ Cardinality(active_connections) # it_used
          /\ bcast' = "raised"
          /\ UNCHANGED <<active_connections, connection, it_todo, attempted>>
       \/ /\ Cardinality(active_connections) = it_used
          /\ it_todo # {}
          /\ \E c \in it_todo :
                /\ connection' = c
                /\ it_todo' = it_todo \ {c}
                /\ attempted' = [attempted EXCEPT ![c] = @ + 1]
          /\ bcast' = "send"
          /\ UNCHANGED active_connections
       \/ /\ Cardinality(active_connections) = it_used
          /\ it_todo = {}
          /\ active_connections' = active_connections \ disconnected
          /\ bcast' = "returned"
          /\ UNCHANGED <<connection, it_todo, attempted>>
    /\ UNCHANGED <<scanVars, sock, it_used, disconnected, whole, members>>

\* await connection.send_text(...) is over: it returned, or it raised and
\* "except Exception" adds the connection to disconnected (lines 47-51)
send_text ==
    /\ bcast = "send"
    /\ disconnected' = IF sock[connection] = "closed"
                       THEN disconnected \cup {connection} ELSE disconnected
    /\ bcast' = "next"
    /\ UNCHANGED <<scanVars, active_connections, sock, it_used, it_todo, connection,
                   attempted, whole, members>>

NextManager ==
    \/ \E c \in Conns : connect(c) \/ client_close(c) \/ disconnect(c)
    \/ broadcast_to_type
    \/ for_next
    \/ send_text

\* connections come and go while one broadcast_to_type runs
InitManager ==
    /\ InitCommon
    /\ ws_pc = [s \in Sessions |-> "absent"]

SpecManager == InitManager /\ [][NextManager]_vars

\* C27: a connect or disconnect during a broadcast does not break it; when it
\* has returned, every connection that was registered from its start to its
\* end was sent to exactly once, and the group holds exactly the connections
\* that were connected, not disconnected, and whose send did not fail.
C27_RegistrySafe ==
    /\ bcast # "raised"
    /\ bcast = "returned" =>
          /\ \A c \in whole : attempted[c] = 1
          /\ active_connections = members \ disconnected

\* run_scan of one session, nothing cancelling it
NextRun == DeviceStep(1) \/ CaptureStep(1)

\* Every step of run_scan is the return of the call, send or sleep it awaits:
\* with each of them returning, run_scan goes on whenever it can.
SpecRun == InitSend /\ [][NextRun]_vars /\ WF_vars(NextRun)

\* C28: run_scan makes at most MaxAttempts capture calls, one quality call and
\* one template call, and it ends, its cleanup finished.
C28_Terminates ==
    /\ [](/\ Count(calls[1], "capture_image_ex") <= MaxAttempts
          /\ Count(calls[1], "get_image_quality") <= 1
          /\ Count(calls[1], "create_template") <= 1
          /\ Count(calls[1], "_cleanup_device") <= 1)
    /\ <>[](/\ scan_task[1] = "done"
            /\ ret[1] \in {"template", "None"}
            /\ Count(calls[1], "_cleanup_device") = 1)

\* C28 witness: run_scan ended after MaxAttempts failed capture calls.
C28_Witness ==
    /\ scan_task[1] = "done"
    /\ Count(calls[1], "capture_image_ex") = MaxAttempts
    /\ ret[1] = "None"

\* _cleanup_device ran to its end: with a device object, set_led(False),
\* close and terminate were the last calls, and the reader is released
CleanupFinished(s) ==
    /\ scan_task[s] = "done"
    /\ orphans[s] = {}
    /\ Count(calls[s], "_cleanup_device") = 1
    /\ device[s] = "SecuGenDevice" =>
          /\ Len(calls[s]) >= 4
          /\ SubSeq(calls[s], Len(calls[s]) - 3, Len(calls[s])) =
                <<"_cleanup_device", "set_led", "close", "terminate">>
          /\ CleanedUp(s)

\* C29: whenever ws_scan has handed a template to the store, sent
\* capture_failed or done, or closed the channel with 1000, and in every
\* state after ws_scan saw the scan finish first, the cleanup of run_scan had
\* run to its end.
C29_CleanupBeforeHandoff ==
    \A s \in Sessions :
        (\/ disconnect_task[s] = "cancelled"
         \/ stored[s] > 0
         \/ HasEvent(s, "capture_failed")
         \/ HasEvent(s, "done")
         \/ HasClose(s, 1000)) => CleanupFinished(s)

\* C29 witness: the template of an opened device is handed to the store.
C29_Witness ==
    /\ ws_pc[1] = "w_store"
    /\ WasOpened(1)
    /\ CleanupFinished(1)

----------------------------------------------------------------------------
(* The capture loop against any result of the device call.                  *)
(* SecuGenDevice.capture_image_ex returns the full buffer of width * height *)
(* bytes or raises, which is what capture_result draws from.  The test of   *)
(* the loop, "img_buffer is not None and len(img_buffer) == width * height",*)
(* also provides for a device call that returns None or a buffer of another *)
(* length: here the loop is run against those results as well.             *)

\* results of the device call that fail the test of line 212
InvalidBuffers == {"None", "wrong length"}

\* an invalid buffer taken for the image
capture_invalid_accepted(s) ==
    /\ Runs(s, "k_capture")
    /\ \E b \in InvalidBuffers : outcomes' = returned(s, "capture_image_ex", b)
    /\ log' = send_event(s, "image_captured", 0)
    /\ scan_task' = sent(s, "k_send_image")
    /\ UNCHANGED <<active, mgrVars, wsEnv, sdkVars, cancel_requested, ret, device, capture_attempts,
                   quality_score, calls>>

\* the else branch of line 219: a warning is logged, no event is sent, and the
\* loop goes on after the try statement (lines 236-246) as after any failed
\* attempt: asyncio.sleep(1) when attempts remain, else None is returned and
\* run_scan sends its error event (lines 84-88)
capture_invalid(s) ==
    /\ Runs(s, "k_capture")
    /\ \E b \in InvalidBuffers : outcomes' = returned(s, "capture_image_ex", b)
    /\ IF MoreAttempts(s)
       THEN /\ scan_task' = [scan_task EXCEPT ![s] = "k_sleep"]
            /\ UNCHANGED log
       ELSE /\ scan_task' = sent(s, "r_send_nocapture")
            /\ log' = send_event(s, "error", 0)
    /\ UNCHANGED <<active, mgrVars, wsEnv, sdkVars, cancel_requested, ret, device, capture_attempts,
                   quality_score, calls>>

NextCapture == DeviceStep(1) \/ CaptureStep(1) \/ capture_invalid(1)

SpecCapture == InitSend /\ [][NextCapture]_vars

\* number of capture calls of the session that ended with a result in R
CountOutcome(s, R) ==
    Cardinality({i \in DOMAIN outcomes[s] :
                    outcomes[s][i][1] = "capture_image_ex" /\ outcomes[s][i][2] \in R})

\* C30: image_captured is sent once per full-size buffer returned, and that
\* buffer ends the loop; timeout and capture_error events are sent for
\* TimeoutError and SecuGenError only, so that None or a buffer of another
\* length brings no event; after such a result the loop pauses and retries
\* while attempts remain, and gives up only after attempt MaxAttempts.
C30_InvalidBufferIsFailedAttempt ==
    \A s \in Sessions :
        /\ CountType(log[s], "image_captured") = CountOutcome(s, {"image"})
        /\ CountOutcome(s, {"image"}) <= 1
        /\ HasEvent(s, "image_captured") =>
              /\ Count(calls[s], "capture_image_ex") = capture_attempts[s]
              /\ Count(calls[s], "capture_image_ex") =
                    CountOutcome(s, {"image", "TimeoutError"} \cup CaptureErrors \cup InvalidBuffers)
        /\ CountType(log[s], "timeout") = CountOutcome(s, {"TimeoutError"})
        /\ CountType(log[s], "capture_error") = CountOutcome(s, CaptureErrors)
        /\ (Len(outcomes[s]) > 0 /\ LastOutcome(s) \in InvalidBuffers) =>
              \/ scan_task[s] \in {"k_sleep", "k_send_retry"} /\ capture_attempts[s] < MaxAttempts
              \/ scan_task[s] \in {"k_send_attempt", "k_capture"}
              \/ /\ capture_attempts[s] = MaxAttempts
                 /\ CountOutcome(s, {"image"}) = 0
                 /\ scan_task[s] \in {"r_send_nocapture", "f_led", "f_close", "f_terminate", "done"}
        /\ (scan_task[s] = "k_send_attempt" /\ Len(outcomes[s]) > 0
                /\ LastOutcome(s) \in InvalidBuffers) =>
              Count(calls[s], "capture_image_ex") = capture_attempts[s] - 1

\* C30 witness: the first device call returned an invalid buffer, no timeout
\* or capture_error event was sent, and the retry brought the image.
C30_Witness ==
    /\ CountOutcome(1, InvalidBuffers) > 0
    /\ HasEvent(1, "image_captured")
    /\ HasEvent(1, "retry")
    /\ ~HasEvent(1, "timeout")
    /\ ~HasEvent(1, "capture_error")

====
